---- MODULE Spec2Model ----
(***************************************************************************)
(* Retrieval / caching / anomaly-detection core of the Options Analytics   *)
(* Agent: the SQLite Snapshot Store, the ChromaDB Vector Index, the        *)
(* cache-aware search_options, batch_search_options, store_options_data,   *)
(* collect_and_store_options and detect_options_anomaly.                   *)
(*                                                                         *)
(* External collaborators (Polygon.io, the OpenAI embedding service, the   *)
(* two databases being reachable) are inputs of the actions, drawn with \E *)
(* from small sets.                                                        *)
(***************************************************************************)
EXTENDS Integers, Sequences, FiniteSets, TLC

VARIABLES
    sqlite,   \* options_snapshots table: snapshot id -> row
    chroma,   \* ChromaDB collection: snapshot id -> [embedding, metadata]
    now,      \* wall clock (datetime.now()), in ticks
    batch,    \* position of the running batch_search_options call
    pending,  \* the call that waits for an external service, if any
    last      \* what the last finished call did and returned

vars == <<sqlite, chroma, now, batch, pending, last>>

----------------------------------------------------------------------------
(* Bounds of the model *)

MaxClock == 3          \* last clock tick: bounds the stores of a run
MaxLimit == 2          \* largest `limit` / `max_results` argument
TicksPerSecond == 2    \* clock ticks per second of the id timestamp
MaxTickers == 2        \* longest ticker list of a batch
MaxRepeatClock == 6    \* last clock tick at which a batch is repeated

(* Program constants *)

STATUS_OK == 200       \* response.status_code == 200
SLEEP_SECONDS == 1     \* time.sleep(1) between batch fetches
MONTH_LEN == 7         \* len(date) == 7: a YYYY-MM key
N_RESULTS == 50        \* n_results of the neighbour query
POLYGON_API_KEY == TRUE  \* deployment has the key configured

----------------------------------------------------------------------------
(* Universe of inputs *)

Tickers == {"AAPL", "aapl", "MSFT"}
DateKeys == {"2025-11", "2025-11-07"}
Limits == 1..MaxLimit

\* str.upper() / str.lower() on the strings of the universe
upper(s) == IF s = "aapl" THEN "AAPL" ELSE s
lower(s) == IF s = "CALL" THEN "call" ELSE IF s = "PUT" THEN "put" ELSE s

\* Option contracts as the upstream API lists them.  strike_price 0 and
\* contract_type "" stand for a missing field.
K1 == [contract_type |-> "call", strike_price |-> 100, expiration_date |-> "2025-11-07"]
K2 == [contract_type |-> "put",  strike_price |-> 110, expiration_date |-> "2025-11-21"]
K3 == [contract_type |-> "",     strike_price |-> 0,   expiration_date |-> "2025-11-07"]
K4 == [contract_type |-> "call", strike_price |-> 120, expiration_date |-> "2025-12-19"]
Chain == <<K1, K2, K3, K4>>

\* Bodies a 200 response may carry: the whole chain, or only its last
\* contract (none of November 2025)
UpstreamBodies == {Chain, <<K4>>}

\* What one HTTP GET may do: fail to connect, answer non-200, answer 200
UpstreamOutcomes ==
    {[reachable |-> FALSE, status_code |-> 0, results |-> <<>>],
     [reachable |-> TRUE, status_code |-> 500, results |-> <<>>]}
    \cup {[reachable |-> TRUE, status_code |-> STATUS_OK, results |-> b] :
            b \in UpstreamBodies}

----------------------------------------------------------------------------
(* Helpers standing for Python built-ins *)

Min(a, b) == IF a <= b THEN a ELSE b

\* s[:n] for n >= 0
Take(s, n) == SubSeq(s, 1, Min(n, Len(s)))

\* s.startswith(p)
StartsWith(s, p) == Len(s) >= Len(p) /\ SubSeq(s, 1, Len(p)) = p

Range(s) == {s[i] : i \in 1..Len(s)}

RECURSIVE SumSeq(_)
SumSeq(s) == IF s = <<>> THEN 0 ELSE s[1] + SumSeq(Tail(s))

MinOf(S) == CHOOSE x \in S : \A y \in S : x <= y
MaxOf(S) == CHOOSE x \in S : \A y \in S : y <= x

\* Order of two characters of a date key, as Python compares str
Alphabet == "-0123456789"
CharRank(c) == CHOOSE i \in 1..Len(Alphabet) : SubSeq(Alphabet, i, i) = c

\* a <= b on Python strings (lexicographic; a proper prefix is smaller)
RECURSIVE StrLeq(_, _)
StrLeq(a, b) ==
    IF Len(a) = 0 THEN TRUE
    ELSE IF Len(b) = 0 THEN FALSE
    ELSE LET ca == CharRank(SubSeq(a, 1, 1))
             cb == CharRank(SubSeq(b, 1, 1))
         IN  IF ca < cb THEN TRUE
             ELSE IF ca > cb THEN FALSE
             ELSE StrLeq(SubSeq(a, 2, Len(a)), SubSeq(b, 2, Len(b)))

\* the comparison, tabulated once over the date keys of the universe
DateLeq == [a \in DateKeys, b \in DateKeys |-> StrLeq(a, b)]

\* second of the clock tick t: strftime("%Y%m%d_%H%M%S") drops the fraction
SecondOf(t) == t \div TicksPerSecond

----------------------------------------------------------------------------
(* rag_knowledge_base.py: metadata, Snapshot Store, Vector Index *)

\* The JSON object search_options returns / store_options_data receives.
\* error = TRUE is {"error": ...}: it has no "results" key.
Payload(results, count, from_cache) ==
    [error |-> FALSE, results |-> results, count |-> count,
     from_cache |-> from_cache]
ErrorPayload ==
    [error |-> TRUE, results |-> <<>>, count |-> 0, from_cache |-> FALSE]

\* a faulty variant: the type is not looked at
of_type_unfiltered(results, contract_type) == results

\* [r for r in results if r.get("contract_type", "").lower() == contract_type]
of_type(results, contract_type) ==
    SelectSeq(results, LAMBDA r : lower(r.contract_type) = contract_type)

\* avg_strike is kept in cents, truncated (a float in the source)
extract_metadata(options_data, ticker, date, t) ==
    LET results == options_data.results
        calls == of_type(results, "call")
        puts == of_type(results, "put")
        strikeRows == SelectSeq(results, LAMBDA r : r.strike_price # 0)
        strikes == [i \in 1..Len(strikeRows) |-> strikeRows[i].strike_price]
    IN  [ticker |-> ticker,
         date |-> date,
         timestamp |-> t,
         total_contracts |-> Len(results),
         calls_count |-> Len(calls),
         puts_count |-> Len(puts),
         strike_min |-> IF strikes # <<>> THEN MinOf(Range(strikes)) ELSE 0,
         strike_max |-> IF strikes # <<>> THEN MaxOf(Range(strikes)) ELSE 0,
         avg_strike |-> IF strikes # <<>>
                        THEN (100 * SumSeq(strikes)) \div Len(strikes) ELSE 0]

\* create_document_text(options_data, ticker, date): the lines of the text
\* that vary, as a record.  "Total Contracts" is the payload's count field,
\* not the number of results; the ratio line is calls / puts (in 1/10000)
\* or N/A.
create_document_text(options_data, ticker, date) ==
    LET results == options_data.results
        count == options_data.count
        calls == Len(SelectSeq(results, LAMBDA r : lower(r.contract_type) = "call"))
        puts == Len(SelectSeq(results, LAMBDA r : lower(r.contract_type) = "put"))
        strikeRows == SelectSeq(results, LAMBDA r : r.strike_price # 0)
        strikes == {strikeRows[i].strike_price : i \in 1..Len(strikeRows)}
    IN  [ticker |-> ticker,
         date |-> date,
         total_contracts |-> count,
         call_options |-> calls,
         put_options |-> puts,
         strike_min |-> IF strikes # {} THEN MinOf(strikes) ELSE 0,
         strike_max |-> IF strikes # {} THEN MaxOf(strikes) ELSE 0,
         call_put_ratio |-> IF puts > 0 THEN <<(10000 * calls) \div puts>>
                            ELSE <<"N/A">>]

\* INSERT OR REPLACE INTO options_snapshots; FALSE when the write raises
store_to_sqlite(sq, snapshot_id, ticker, date, options_data, metadata, sqlite_ok) ==
    IF sqlite_ok
    THEN [ok |-> TRUE,
          sqlite |-> (snapshot_id :>
                        [id |-> snapshot_id,
                         ticker |-> ticker,
                         date |-> date,
                         timestamp |-> metadata.timestamp,
                         total_contracts |-> metadata.total_contracts,
                         calls_count |-> metadata.calls_count,
                         puts_count |-> metadata.puts_count,
                         strike_min |-> metadata.strike_min,
                         strike_max |-> metadata.strike_max,
                         avg_strike |-> metadata.avg_strike,
                         data |-> options_data]) @@ sq]
    ELSE [ok |-> FALSE, sqlite |-> sq]

\* collection.add(ids=[snapshot_id], ...); FALSE when it raises.  An id the
\* collection already holds is not written again.
store_to_chromadb(ch, snapshot_id, embedding, metadata, chroma_ok) ==
    IF chroma_ok
    THEN [ok |-> TRUE,
          chroma |-> IF snapshot_id \in DOMAIN ch THEN ch
                     ELSE (snapshot_id :>
                             [embedding |-> embedding,
                              metadata |-> ("snapshot_id" :> snapshot_id)
                                           @@ metadata]) @@ ch]
    ELSE [ok |-> FALSE, chroma |-> ch]

\* a faulty variant: ORDER BY timestamp ASC
RECURSIVE OrderByTimestampAsc(_, _)
OrderByTimestampAsc(rows, n) ==
    IF rows = {} \/ n <= 0 THEN <<>>
    ELSE LET r == CHOOSE x \in rows : \A y \in rows : x.timestamp <= y.timestamp
         IN  <<r>> \o OrderByTimestampAsc(rows \ {r}, n - 1)

\* rows in ORDER BY timestamp DESC, cut to n
RECURSIVE OrderByTimestampDesc(_, _)
OrderByTimestampDesc(rows, n) ==
    IF rows = {} \/ n <= 0 THEN <<>>
    ELSE LET r == CHOOSE x \in rows : \A y \in rows : y.timestamp <= x.timestamp
         IN  <<r>> \o OrderByTimestampDesc(rows \ {r}, n - 1)

\* query_sqlite(ticker, start_date, end_date, limit); "" is an omitted
\* filter; an unreachable database gives [] (the except branch)
query_sqlite(sq, db_up, ticker, start_date, end_date, limit) ==
    IF ~db_up THEN <<>>
    ELSE OrderByTimestampDesc(
            {sq[i] : i \in {j \in DOMAIN sq :
                /\ ticker # "" => sq[j].ticker = ticker
                /\ start_date # "" => DateLeq[start_date, sq[j].date]
                /\ end_date # "" => DateLeq[sq[j].date, end_date]}},
            limit)

----------------------------------------------------------------------------
(* tools/search/options_search.py *)

\* faulty variants of the cache test
cache_sufficient_strict(cached_count, limit) == cached_count > limit
cache_sufficient_nonempty(cached_count, limit) == cached_count > 0

\* the cache test of search_options: cached_count >= limit
cache_sufficient(cached_count, limit) == cached_count >= limit

\* the cached payload as search_options hands it out
serve_from_cache(cached_json, limit) ==
    LET cached_count == cached_json.count
        results == IF cached_count > limit
                   THEN Take(cached_json.results, limit)
                   ELSE cached_json.results
    IN  Payload(results,
                IF cached_count > limit THEN Len(results) ELSE cached_count,
                TRUE)

\* client-side filter by month prefix or exact date
\* a faulty variant: the month key compared like an exact date
filter_by_date_exact(all_contracts, date) ==
    SelectSeq(all_contracts, LAMBDA c : c.expiration_date = date)

filter_by_date(all_contracts, date) ==
    IF Len(date) = MONTH_LEN
    THEN SelectSeq(all_contracts,
                   LAMBDA c : StartsWith(c.expiration_date, date))
    ELSE SelectSeq(all_contracts, LAMBDA c : c.expiration_date = date)

\* the "Fetch from API" half of search_options; requests.get raises when
\* the API cannot be reached and nothing in search_options catches it
fetch_from_api(date, limit, upstream) ==
    IF ~POLYGON_API_KEY
    THEN [raised |-> FALSE, data |-> ErrorPayload, upstream_calls |-> 0]
    ELSE IF ~upstream.reachable
    THEN [raised |-> TRUE, data |-> ErrorPayload, upstream_calls |-> 1]
    ELSE IF upstream.status_code = STATUS_OK
    THEN LET filtered == filter_by_date(upstream.results, date)
             limited_results == IF Len(filtered) > limit
                                THEN Take(filtered, limit) ELSE filtered
         IN  [raised |-> FALSE,
              data |-> Payload(limited_results, Len(limited_results), FALSE),
              upstream_calls |-> 1]
    ELSE [raised |-> FALSE, data |-> ErrorPayload, upstream_calls |-> 1]

\* search_options(ticker, date, limit, force_refresh) over the store sq;
\* db_up and upstream are what the database and the API do during the call
search_options(sq, ticker, date, limit, force_refresh, db_up, upstream) ==
    LET cached_data == IF force_refresh THEN <<>>
                       ELSE query_sqlite(sq, db_up, upper(ticker), date, date, 1)
    IN  IF cached_data # <<>>
           /\ cache_sufficient(cached_data[1].data.count, limit)
        THEN [raised |-> FALSE,
              data |-> serve_from_cache(cached_data[1].data, limit),
              upstream_calls |-> 0]
        ELSE fetch_from_api(date, limit, upstream)

----------------------------------------------------------------------------
(* rag/rag_tools.py *)

\* snapshot_id = f"snap_{ticker}_{date}_{timestamp}", timestamp to the second
snapshot_id_of(ticker, date, t) == <<ticker, date, SecondOf(t)>>

\* What the embedding service and the two databases do during one store:
\* all three work, or one step fails
OkEnvs(embeddings) ==
    {[embed_ok |-> TRUE, embedding |-> e, chroma_ok |-> TRUE, sqlite_ok |-> TRUE] :
        e \in embeddings}
StoreEnvs(embeddings) ==
    OkEnvs(embeddings)
    \cup {[embed_ok |-> FALSE, embedding |-> 0, chroma_ok |-> TRUE, sqlite_ok |-> TRUE],
          [embed_ok |-> TRUE, embedding |-> 0, chroma_ok |-> FALSE, sqlite_ok |-> TRUE],
          [embed_ok |-> TRUE, embedding |-> 0, chroma_ok |-> TRUE, sqlite_ok |-> FALSE],
          [embed_ok |-> TRUE, embedding |-> 0, chroma_ok |-> FALSE, sqlite_ok |-> FALSE]}

\* store_options_data(data, ticker, date) at clock tick t.  ret is the
\* message returned: "stored", "invalid_format", "no_contracts",
\* "store_failed" (one or both databases) or "exception" (except branch);
\* steps are the calls it made to the embedding service and to the two
\* databases, in the order it made them.
store_options_data(sq, ch, options_data, ticker, date, t, env) ==
    IF options_data.error
    THEN [ret |-> "invalid_format", sqlite |-> sq, chroma |-> ch,
          snapshot_id |-> <<>>, embed_calls |-> 0, steps |-> <<>>,
          chroma_success |-> FALSE, sqlite_success |-> FALSE]
    ELSE IF options_data.results = <<>>
    THEN [ret |-> "no_contracts", sqlite |-> sq, chroma |-> ch,
          snapshot_id |-> <<>>, embed_calls |-> 0, steps |-> <<>>,
          chroma_success |-> FALSE, sqlite_success |-> FALSE]
    ELSE LET snapshot_id == snapshot_id_of(ticker, date, t)
             metadata == extract_metadata(options_data, ticker, date, t)
         IN  IF ~env.embed_ok
             THEN [ret |-> "exception", sqlite |-> sq, chroma |-> ch,
                   snapshot_id |-> snapshot_id, embed_calls |-> 1,
                   steps |-> <<"generate_embedding">>,
                   chroma_success |-> FALSE, sqlite_success |-> FALSE]
             ELSE LET c == store_to_chromadb(ch, snapshot_id, env.embedding,
                                             metadata, env.chroma_ok)
                      q == store_to_sqlite(sq, snapshot_id, ticker, date,
                                           options_data, metadata, env.sqlite_ok)
                  IN  [ret |-> IF c.ok /\ q.ok THEN "stored" ELSE "store_failed",
                       sqlite |-> q.sqlite, chroma |-> c.chroma,
                       snapshot_id |-> snapshot_id, embed_calls |-> 1,
                       steps |-> <<"generate_embedding", "store_to_chromadb",
                                   "store_to_sqlite">>,
                       chroma_success |-> c.ok, sqlite_success |-> q.ok]

----------------------------------------------------------------------------
(* tools/search/batch_search.py *)

\* ticker_list = [t.strip().upper() for t in tickers.split(',')]
parse_tickers(tickers) == [i \in 1..Len(tickers) |-> upper(tickers[i])]

\* the cached payload as batch_search_options hands it out
batch_serve_from_cache(cached_data, limit) ==
    IF cached_data.count > limit
    THEN Payload(Take(cached_data.results, limit), limit, TRUE)
    ELSE Payload(cached_data.results, cached_data.count, TRUE)

\* a faulty variant: a row with exactly `limit` contracts is a miss
batch_cache_hit_strict(total_contracts, limit) == total_contracts > limit

\* cached[0]['total_contracts'] >= limit
batch_cache_hit(total_contracts, limit) == total_contracts >= limit

\* STEP 1, one ticker: hit when the newest row has total_contracts >= limit
RECURSIVE check_cache(_, _, _, _, _, _)
check_cache(results, sq, ticker_list, date, limit, dbs) ==
    IF ticker_list = <<>> THEN results
    ELSE LET ticker == Head(ticker_list)
             cached == query_sqlite(sq, Head(dbs), ticker, date, date, 1)
             hit == cached # <<>>
                    /\ batch_cache_hit(cached[1].total_contracts, limit)
             next == IF hit
                     THEN [results EXCEPT
                             !.cache_hits = Append(@, ticker),
                             !.data = (ticker :> batch_serve_from_cache(
                                                    cached[1].data, limit)) @@ @]
                     ELSE [results EXCEPT !.api_fetches = Append(@, ticker)]
         IN  check_cache(next, sq, Tail(ticker_list), date, limit, Tail(dbs))

\* a faulty handler that drops the failure
on_fetch_exception_silent(results, ticker) == results

\* except Exception around one fetch: the ticker is recorded as failed
on_fetch_exception(results, ticker) ==
    [results EXCEPT !.failed = Append(@, ticker)]

\* STEP 2, one ticker of api_fetches at clock tick t: search_options with
\* force_refresh, the auto-save, the sleep.  An exception of
\* search_options leaves the try block before time.sleep(1).
fetch_one(results, sq, ch, ticker, date, limit, t, upstream, env) ==
    LET r == search_options(sq, ticker, date, limit, TRUE, TRUE, upstream)
        called == IF r.upstream_calls = 1 THEN <<"upstream">> ELSE <<>>
        unchanged == [sqlite |-> sq, chroma |-> ch]
    IN  IF r.raised
        THEN unchanged @@
             [results |-> [on_fetch_exception(results, ticker) EXCEPT
                                !.events = @ \o called,
                                !.outcomes = Append(@,
                                    [ticker |-> ticker, kind |-> "raised",
                                     data |-> r.data, saved |-> "none"])],
              now |-> t]
        ELSE IF r.data.error \/ r.data.count = 0
        THEN unchanged @@
             [results |-> [results EXCEPT
                                !.failed = Append(@, ticker),
                                !.events = @ \o called \o <<"sleep">>,
                                !.outcomes = Append(@,
                                    [ticker |-> ticker,
                                     kind |-> IF r.data.error THEN "error"
                                              ELSE "empty",
                                     data |-> r.data, saved |-> "none"])],
              now |-> t + SLEEP_SECONDS * TicksPerSecond]
        ELSE LET st == store_options_data(sq, ch, r.data, ticker, date, t, env)
             IN  [sqlite |-> st.sqlite, chroma |-> st.chroma,
                  results |-> [results EXCEPT
                                !.data = (ticker :> r.data) @@ @,
                                !.events = @ \o called \o <<"sleep">>,
                                !.outcomes = Append(@,
                                    [ticker |-> ticker, kind |-> "fetched",
                                     data |-> r.data, saved |-> st.ret])],
                  now |-> t + 1 + SLEEP_SECONDS * TicksPerSecond]

\* STEP 3: what the summary lists
summary_of(results) ==
    [op |-> "batch_search_options",
     raised |-> FALSE,
     tickers |-> results.tickers,
     date |-> results.date,
     limit |-> results.limit,
     cache_hits |-> results.cache_hits,
     api_fetches |-> results.api_fetches,
     from_api |-> SelectSeq(results.api_fetches,
                    LAMBDA x : x \notin Range(results.failed)
                               /\ x \in DOMAIN results.data),
     failed |-> results.failed,
     data |-> results.data,
     events |-> results.events,
     outcomes |-> results.outcomes,
     earlier_outcomes |-> <<>>]

----------------------------------------------------------------------------
(* rag/rag_collection_tools.py *)

\* collect_and_store_options(ticker, date, limit, force_update) at clock
\* tick t.  The existence check queries the ticker as given; the fetch is
\* search_options without force_refresh; every exception ends in the
\* "Error in auto-collection" message.  ret names the message returned and
\* storage the message of store_options_data embedded in it.
collect_and_store_options(sq, ch, ticker, date, limit, force_update, t, db_up, upstream, env) ==
    LET existing == IF force_update THEN <<>>
                    ELSE query_sqlite(sq, db_up, ticker, date, date, 1)
        unchanged == [sqlite |-> sq, chroma |-> ch, storage |-> "none",
                      snapshot_id |-> <<>>]
    IN  IF existing # <<>>
        THEN unchanged @@ [ret |-> "already_exists", upstream_calls |-> 0]
        ELSE LET r == search_options(sq, ticker, date, limit, FALSE, db_up,
                                     upstream)
             IN  IF r.raised
                 THEN unchanged @@ [ret |-> "exception",
                                    upstream_calls |-> r.upstream_calls]
                 ELSE IF r.data.error
                 THEN unchanged @@ [ret |-> "collect_error",
                                    upstream_calls |-> r.upstream_calls]
                 ELSE IF r.data.count = 0
                 THEN unchanged @@ [ret |-> "no_data",
                                    upstream_calls |-> r.upstream_calls]
                 ELSE LET st == store_options_data(sq, ch, r.data, ticker,
                                                   date, t, env)
                      IN  [sqlite |-> st.sqlite, chroma |-> st.chroma,
                           storage |-> st.ret, snapshot_id |-> st.snapshot_id,
                           ret |-> "complete",
                           upstream_calls |-> r.upstream_calls]

\* `"❌" in result or "Error" in result` for the message
\* collect_and_store_options returned.  The messages of an exception and of
\* an upstream error start with the cross; "Data already exists" and "No
\* options data found" carry neither mark; the "complete" message embeds
\* the text of store_options_data, which starts with the cross unless the
\* Snapshot was stored.
has_error_mark(ret, storage) ==
    \/ ret \in {"exception", "collect_error"}
    \/ ret = "complete" /\ storage # "stored"

\* one turn of the loop: the counters and the result line after `ticker`
\* was collected with outcome c; `more` tells whether a sleep follows
collect_step(acc, ticker, c, more) ==
    LET is_failed == has_error_mark(c.ret, c.storage)
    IN  [sqlite |-> c.sqlite,
         chroma |-> c.chroma,
         now |-> acc.now + (IF c.snapshot_id = <<>> THEN 0 ELSE 1)
                 + (IF more THEN SLEEP_SECONDS * TicksPerSecond ELSE 0),
         successful |-> acc.successful + (IF is_failed THEN 0 ELSE 1),
         failed |-> acc.failed + (IF is_failed THEN 1 ELSE 0),
         results |-> Append(acc.results,
            [ticker |-> ticker,
             status |-> IF is_failed THEN "Failed" ELSE "Success",
             ret |-> c.ret, storage |-> c.storage])]

\* the loop of batch_collect_options at clock tick acc.now: one
\* collect_and_store_options call per ticker, a sleep after each but the
\* last
RECURSIVE collect_each(_, _, _, _, _, _)
collect_each(acc, ticker_list, date, limit, upstreams, envs) ==
    IF ticker_list = <<>> THEN acc
    ELSE CHOOSE out \in
            {collect_each(next, Tail(ticker_list), date, limit,
                          Tail(upstreams), Tail(envs)) :
               next \in
                 {collect_step(acc, Head(ticker_list), c,
                               Len(ticker_list) > 1) :
                    c \in {collect_and_store_options(acc.sqlite, acc.chroma,
                              Head(ticker_list), date, limit, FALSE, acc.now,
                              TRUE, Head(upstreams), Head(envs))}}} : TRUE

\* batch_collect_options(tickers, date, limit)
batch_collect_options(sq, ch, tickers, date, limit, t, upstreams, envs) ==
    collect_each([sqlite |-> sq, chroma |-> ch, now |-> t, successful |-> 0,
                  failed |-> 0, results |-> <<>>],
                 parse_tickers(tickers), date, limit, upstreams, envs)

----------------------------------------------------------------------------
(* rag/rag_knowledge_base.py: detect_options_anomaly *)

\* Distances are counted in 1/100000 and similarities in 1/200000, so that
\* similarity = 1 - distance / 2 is exact: 200000 - distance.
SimilarityOne == 2 * 100000
similarity_of(distance) == SimilarityOne - distance

\* round(x, 4) of a value counted in 1/(10000 * per): to the nearest
\* multiple of `per`, a tie to the even one
RoundTo(x, per) ==
    LET q == x \div per
        r == x % per
    IN  IF 2 * r < per THEN q * per
        ELSE IF 2 * r > per THEN (q + 1) * per
        ELSE IF q % 2 = 0 THEN q * per ELSE (q + 1) * per
round4_similarity(s) == RoundTo(s, 20)
round4_distance(d) == RoundTo(d, 10)

HIGH_BELOW == 140000     \* similarity_score < 0.7
MEDIUM_BELOW == 170000   \* similarity_score < 0.85

\* a faulty variant: High only below 0.07
anomaly_level_low_threshold(similarity_score) ==
    IF similarity_score < 14000 THEN "High"
    ELSE IF similarity_score < MEDIUM_BELOW THEN "Medium"
    ELSE "Low"

anomaly_level(similarity_score) ==
    IF similarity_score < HIGH_BELOW THEN "High"
    ELSE IF similarity_score < MEDIUM_BELOW THEN "Medium"
    ELSE "Low"

\* Cosine distance of two stored embeddings.  The embedding service is
\* external: its vectors are the points 0, 1, 2 and DistanceTable[a + 1][b + 1]
\* is the distance of a and b (0.59992 for 0 and 1, 1.2 for 0 and 2,
\* 0.60008 for 1 and 2).
DistanceTable ==
    <<<<0, 59992, 120000>>,
      <<59992, 0, 60008>>,
      <<120000, 60008, 0>>>>
cosine_distance(a, b) == DistanceTable[a + 1][b + 1]

\* collection.query(query_embeddings=[e], n_results=n, where={"ticker": t}):
\* the matching records, nearest first
RECURSIVE nearest_first(_, _, _, _)
nearest_first(ch, ids, e, n) ==
    IF ids = {} \/ n <= 0 THEN <<>>
    ELSE LET i == CHOOSE x \in ids : \A y \in ids :
                    cosine_distance(e, ch[x].embedding)
                        <= cosine_distance(e, ch[y].embedding)
         IN  <<[metadata |-> ch[i].metadata,
                distance |-> cosine_distance(e, ch[i].embedding)]>>
             \o nearest_first(ch, ids \ {i}, e, n - 1)

collection_query(ch, e, n, ticker) ==
    nearest_first(ch, {i \in DOMAIN ch : ch[i].metadata.ticker = ticker}, e, n)

\* search_chromadb(query_text, limit, where): the query text is embedded,
\* the nearest records are formatted; "similarity" is 1 - distance.  Any
\* exception gives [].  ticker = "" is no where filter.
search_chromadb(ch, limit, ticker, env) ==
    IF ~env.embed_ok \/ ~env.chroma_ok THEN <<>>
    ELSE LET ids == {i \in DOMAIN ch : ticker # "" => ch[i].metadata.ticker = ticker}
             found == nearest_first(ch, ids, env.embedding, limit)
         IN  [i \in 1..Len(found) |->
                [id |-> found[i].metadata.snapshot_id,
                 distance |-> found[i].distance,
                 similarity |-> SimilarityOne - 2 * found[i].distance,
                 metadata |-> found[i].metadata]]

\* what detect_options_anomaly returns: a one-element error list or the
\* anomalies
ErrorResult(kind) == [is_error |-> TRUE, error |-> kind, anomalies |-> <<>>]
Anomalies(list) == [is_error |-> FALSE, error |-> "", anomalies |-> list]

\* a faulty variant: an empty result for a missing reference
no_reference_result_empty(reference_rows) == Anomalies(<<>>)

\* if not reference_row: return [{"error": "No reference data found ..."}]
no_reference_result(reference_rows) == ErrorResult("no_reference_data")

\* calls / puts, in hundredths, 0 when puts = 0
call_put_ratio(calls, puts) ==
    IF puts > 0 THEN (10000 * calls) \div puts ELSE 0

\* a faulty variant: reference minus comparison
signed_delta_reversed(cmp_value, ref_value) == ref_value - cmp_value

\* "total_contracts_change": cmp_total - ref_total, and the like
signed_delta(cmp_value, ref_value) == cmp_value - ref_value

\* the entry appended for one surviving neighbour
anomaly_entry(ref, cmp, snapshot_date, distance) ==
    LET similarity_score == similarity_of(distance)
        ref_ratio == call_put_ratio(ref.calls_count, ref.puts_count)
        cmp_ratio == call_put_ratio(cmp.calls_count, cmp.puts_count)
    IN  [date |-> snapshot_date,
         timestamp |-> cmp.timestamp,
         similarity_score |-> round4_similarity(similarity_score),
         distance |-> round4_distance(distance),
         anomaly_level |-> anomaly_level(similarity_score),
         metrics |-> [total_contracts |-> cmp.total_contracts,
                      calls_count |-> cmp.calls_count,
                      puts_count |-> cmp.puts_count,
                      call_put_ratio |-> IF cmp.puts_count > 0
                                         THEN RoundTo(cmp_ratio, 100)
                                         ELSE "None",
                      strike_min |-> cmp.strike_min,
                      strike_max |-> cmp.strike_max,
                      avg_strike |-> cmp.avg_strike],
         changes_from_reference |->
            [total_contracts_change |->
                signed_delta(cmp.total_contracts, ref.total_contracts),
             calls_change |-> signed_delta(cmp.calls_count, ref.calls_count),
             puts_change |-> signed_delta(cmp.puts_count, ref.puts_count),
             call_put_ratio_change |-> RoundTo(cmp_ratio - ref_ratio, 100),
             avg_strike_change |-> cmp.avg_strike - ref.avg_strike]]

\* The Optional[List[str]] argument comparison_dates: None, or a list that
\* may be empty
NoDates == [supplied |-> FALSE, dates |-> <<>>]
DateList(dates) == [supplied |-> TRUE, dates |-> dates]

\* `if comparison_dates`: None and the empty list are both false
truthy(comparison_dates) ==
    comparison_dates.supplied /\ comparison_dates.dates # <<>>

\* the loop over the neighbours, in the order the index returned them: a
\* neighbour is skipped when it is the reference, when comparison_dates is
\* true and does not hold its date, when its similarity is below
\* min_similarity, or when the Snapshot Store has no row of its id; an
\* entry is appended for every other
collect_anomalies(sq, ref, neighbours, comparison_dates, min_similarity) ==
    LET kept == SelectSeq(neighbours, LAMBDA nb :
                    /\ nb.metadata.snapshot_id # ref.id
                    /\ ~(/\ truthy(comparison_dates)
                         /\ nb.metadata.date \notin Range(comparison_dates.dates))
                    /\ ~(similarity_of(nb.distance) < min_similarity)
                    /\ nb.metadata.snapshot_id \in DOMAIN sq)
    IN  [i \in 1..Len(kept) |->
            anomaly_entry(ref, sq[kept[i].metadata.snapshot_id],
                          kept[i].metadata.date, kept[i].distance)]

\* list.sort(key=similarity_score): ascending and stable, so an element
\* comes after those of a lower score and after the earlier ones of its
\* own score
stable_sort(anomalies) ==
    LET n == Len(anomalies)
        position(i) ==
            1 + Cardinality({j \in 1..n :
                    \/ anomalies[j].similarity_score < anomalies[i].similarity_score
                    \/ /\ anomalies[j].similarity_score = anomalies[i].similarity_score
                       /\ j < i})
    IN  [k \in 1..n |-> anomalies[CHOOSE i \in 1..n : position(i) = k]]

\* a faulty variant: the index order is kept
sort_by_similarity_none(anomalies) == anomalies

\* anomalies.sort(key=lambda x: x['similarity_score'])
sort_by_similarity(anomalies) == stable_sort(anomalies)

\* a faulty variant: the reference document is embedded again
reference_embedding_recomputed(ch, reference_id) ==
    [embedding |-> ch[reference_id].embedding, embed_calls |-> 1]

\* collection.get(ids=[reference_id], include=['documents', 'embeddings']):
\* the vector is read from the record, the embedding service is not called
reference_embedding(ch, reference_id) ==
    [embedding |-> ch[reference_id].embedding, embed_calls |-> 0]

\* the calls a path of detect_options_anomaly made to the upstream API and
\* to the embedding service
ServiceCalls(upstream_calls, embed_calls) ==
    [upstream_calls |-> upstream_calls, embed_calls |-> embed_calls]

\* detect_options_anomaly(ticker, reference_date, comparison_dates,
\* min_similarity, max_results); env says whether SQLite and ChromaDB
\* answer.  Any exception ends in the one-element error list.  The
\* function reads both databases (SELECT, collection.get, collection.query)
\* and writes neither.
detect_options_anomaly(sq, ch, ticker, reference_date, comparison_dates, min_similarity, max_results, env) ==
    IF ~env.chroma_up \/ ~env.sqlite_up
    THEN ErrorResult("detection_failed") @@ ServiceCalls(0, 0)
    ELSE LET reference_rows ==
                query_sqlite(sq, TRUE, upper(ticker), reference_date,
                             reference_date, 1)
         IN  IF reference_rows = <<>>
             THEN no_reference_result(reference_rows) @@ ServiceCalls(0, 0)
             ELSE LET ref == reference_rows[1]
                  IN  IF ref.id \notin DOMAIN ch
                      THEN ErrorResult("not_in_vector_database")
                           @@ ServiceCalls(0, 0)
                      ELSE LET reference == reference_embedding(ch, ref.id)
                               neighbours ==
                                  collection_query(ch, reference.embedding,
                                                   N_RESULTS, upper(ticker))
                               anomalies ==
                                  collect_anomalies(sq, ref, neighbours,
                                                    comparison_dates,
                                                    min_similarity)
                           IN  Anomalies(Take(sort_by_similarity(anomalies),
                                              max_results))
                               @@ ServiceCalls(0, reference.embed_calls)

----------------------------------------------------------------------------
(* State machine *)

Idle == [pc |-> "idle"]
NoCall == [pc |-> "none"]

Init ==
    /\ sqlite = <<>>
    /\ chroma = <<>>
    /\ now = 0
    /\ batch = Idle
    /\ pending = NoCall
    /\ last = [op |-> "none"]

\* Payloads a caller can hold: what fetch_from_api returns without raising
FetchedPayloads(dates) ==
    {fetch_from_api(d, l, u).data :
        d \in dates, l \in Limits, u \in {x \in UpstreamOutcomes : x.reachable}}

\* a caller runs store_options_data(data, ticker, date); the clock moves
\* on when the call has read it (snapshot id and metadata timestamp)
StoreOptionsData(data, ticker, date, env) ==
    /\ batch.pc = "idle"
    /\ now < MaxClock
    /\ LET r == store_options_data(sqlite, chroma, data, ticker, date, now, env)
       IN  /\ sqlite' = r.sqlite
           /\ chroma' = r.chroma
           /\ now' = IF r.snapshot_id = <<>> THEN now ELSE now + 1
           /\ last' = [op |-> "store_options_data", ticker |-> ticker,
                       date |-> date, ret |-> r.ret,
                       snapshot_id |-> r.snapshot_id,
                       embed_calls |-> r.embed_calls,
                       steps |-> r.steps,
                       embed_ok |-> env.embed_ok,
                       chroma_success |-> r.chroma_success,
                       sqlite_success |-> r.sqlite_success]
    /\ UNCHANGED <<batch, pending>>

\* a caller runs search_options(ticker, date, limit, force_refresh)
SearchOptions(ticker, date, limit, force_refresh, db_up, upstream) ==
    /\ batch.pc = "idle"
    /\ LET r == search_options(sqlite, ticker, date, limit, force_refresh,
                               db_up, upstream)
       IN  last' = [op |-> "search_options", ticker |-> ticker, date |-> date,
                    limit |-> limit, force_refresh |-> force_refresh,
                    db_up |-> db_up, upstream |-> upstream,
                    raised |-> r.raised, data |-> r.data,
                    upstream_calls |-> r.upstream_calls]
    /\ UNCHANGED <<sqlite, chroma, now, batch, pending>>

\* batch_search_options(tickers, date, limit) is called: STEP 1 over all
\* tickers; with nothing to fetch the call returns at once
BatchStart(tickers, date, limit, dbs) ==
    /\ batch.pc = "idle"
    /\ now < MaxClock
    /\ LET results == check_cache(
                [tickers |-> tickers, date |-> date, limit |-> limit,
                 cache_hits |-> <<>>, api_fetches |-> <<>>, failed |-> <<>>,
                 data |-> <<>>, events |-> <<>>, outcomes |-> <<>>],
                sqlite, parse_tickers(tickers), date, limit, dbs)
       IN  IF results.api_fetches = <<>>
           THEN /\ batch' = Idle
                /\ last' = summary_of(results)
           ELSE /\ batch' = [pc |-> "fetching", results |-> results]
                /\ UNCHANGED last
    /\ UNCHANGED <<sqlite, chroma, now, pending>>

\* batch_search_options is called again with the arguments of the call
\* that just returned, the database being reachable; a summary returned at
\* once keeps what the earlier call fetched
BatchAgain ==
    /\ batch.pc = "idle"
    /\ last.op = "batch_search_options"
    /\ now < MaxRepeatClock
    /\ LET results == check_cache(
                [tickers |-> last.tickers, date |-> last.date,
                 limit |-> last.limit,
                 cache_hits |-> <<>>, api_fetches |-> <<>>, failed |-> <<>>,
                 data |-> <<>>, events |-> <<>>, outcomes |-> <<>>],
                sqlite, parse_tickers(last.tickers), last.date, last.limit,
                [i \in 1..Len(last.tickers) |-> TRUE])
       IN  IF results.api_fetches = <<>>
           THEN /\ batch' = Idle
                /\ last' = [summary_of(results) EXCEPT
                                !.earlier_outcomes = last.outcomes]
           ELSE /\ batch' = [pc |-> "fetching", results |-> results]
                /\ UNCHANGED last
    /\ UNCHANGED <<sqlite, chroma, now, pending>>

\* the running batch fetches its next ticker; after the last one the call
\* returns its summary
BatchFetch(upstream, env) ==
    /\ batch.pc = "fetching"
    /\ LET results == batch.results
           ticker == results.api_fetches[Len(results.outcomes) + 1]
           f == fetch_one(results, sqlite, chroma, ticker, results.date,
                          results.limit, now, upstream, env)
       IN  /\ sqlite' = f.sqlite
           /\ chroma' = f.chroma
           /\ now' = f.now
           /\ IF Len(f.results.outcomes) = Len(results.api_fetches)
              THEN /\ batch' = Idle
                   /\ last' = summary_of(f.results)
              ELSE /\ batch' = [pc |-> "fetching", results |-> f.results]
                   /\ UNCHANGED last
    /\ UNCHANGED pending

\* a caller runs query_sqlite(ticker, start_date, end_date, limit)
QuerySqlite(ticker, start_date, end_date, limit, db_up) ==
    /\ batch.pc = "idle"
    /\ last' = [op |-> "query_sqlite", ticker |-> ticker,
                start_date |-> start_date, end_date |-> end_date,
                limit |-> limit, db_up |-> db_up,
                result |-> query_sqlite(sqlite, db_up, ticker, start_date,
                                        end_date, limit)]
    /\ UNCHANGED <<sqlite, chroma, now, batch, pending>>

\* create_document_text is applied to a payload
CreateDocumentText(options_data, ticker, date) ==
    /\ batch.pc = "idle"
    /\ last' = [op |-> "create_document_text", options_data |-> options_data,
                ticker |-> ticker, date |-> date,
                text |-> create_document_text(options_data, ticker, date)]
    /\ UNCHANGED <<sqlite, chroma, now, batch, pending>>

\* a caller runs search_chromadb(query_text, limit, where)
SearchChromadb(limit, ticker, env) ==
    /\ batch.pc = "idle"
    /\ last' = [op |-> "search_chromadb", limit |-> limit, ticker |-> ticker,
                env |-> env,
                result |-> search_chromadb(chroma, limit, ticker, env)]
    /\ UNCHANGED <<sqlite, chroma, now, batch, pending>>

\* a caller runs collect_and_store_options
CollectAndStoreOptions(ticker, date, limit, force_update, db_up, upstream, env) ==
    /\ batch.pc = "idle"
    /\ now < MaxClock
    /\ LET c == collect_and_store_options(sqlite, chroma, ticker, date, limit,
                                          force_update, now, db_up, upstream, env)
       IN  /\ sqlite' = c.sqlite
           /\ chroma' = c.chroma
           /\ now' = IF c.snapshot_id = <<>> THEN now ELSE now + 1
           /\ last' = [op |-> "collect_and_store_options", ticker |-> ticker,
                       date |-> date, limit |-> limit,
                       force_update |-> force_update, raised |-> FALSE,
                       ret |-> c.ret, storage |-> c.storage,
                       snapshot_id |-> c.snapshot_id,
                       upstream_calls |-> c.upstream_calls]
    /\ UNCHANGED <<batch, pending>>

\* a caller runs detect_options_anomaly
DetectOptionsAnomaly(ticker, reference_date, comparison_dates, min_similarity, max_results, env) ==
    /\ batch.pc = "idle"
    /\ last' = [op |-> "detect_options_anomaly", ticker |-> ticker,
                reference_date |-> reference_date,
                comparison_dates |-> comparison_dates,
                min_similarity |-> min_similarity,
                max_results |-> max_results,
                raised |-> FALSE,
                result |-> detect_options_anomaly(sqlite, chroma, ticker,
                                reference_date, comparison_dates,
                                min_similarity, max_results, env)]
    /\ UNCHANGED <<sqlite, chroma, now, batch, pending>>

\* a caller runs batch_collect_options; upstreams[i] and envs[i] are what
\* the API, the embedding service and the databases do for the i-th ticker
BatchCollectOptions(tickers, date, limit, upstreams, envs) ==
    /\ batch.pc = "idle"
    /\ now < MaxClock
    /\ LET b == batch_collect_options(sqlite, chroma, tickers, date, limit,
                                      now, upstreams, envs)
       IN  /\ sqlite' = b.sqlite
           /\ chroma' = b.chroma
           /\ now' = b.now
           /\ last' = [op |-> "batch_collect_options", tickers |-> tickers,
                       date |-> date, limit |-> limit, raised |-> FALSE,
                       successful |-> b.successful, failed |-> b.failed,
                       results |-> b.results]
    /\ UNCHANGED <<batch, pending>>

\* How long a call waits for an external service.  requests.get is called
\* without a timeout argument, so it waits as long as the connection stays
\* open; the OpenAI client is built with its defaults, which give up after
\* a fixed time and raise.
requests_timeout == "None"
openai_timeout == "default"
wait_returns(responds, timeout) == responds \/ timeout # "None"

\* search_options reaches requests.get: the cache did not serve the request
SearchBegin(ticker, date, limit, force_refresh, upstream, responds) ==
    /\ batch.pc = "idle"
    /\ pending.pc = "none"
    /\ search_options(sqlite, ticker, date, limit, force_refresh, TRUE,
                      upstream).upstream_calls = 1
    /\ pending' = [pc |-> "requests_get", ticker |-> ticker, date |-> date,
                   limit |-> limit, force_refresh |-> force_refresh,
                   upstream |-> upstream, responds |-> responds]
    /\ UNCHANGED <<sqlite, chroma, now, batch, last>>

\* requests.get returns or raises, and search_options finishes
RequestsGetReturns ==
    /\ pending.pc = "requests_get"
    /\ wait_returns(pending.responds, requests_timeout)
    /\ LET upstream == IF pending.responds THEN pending.upstream
                       ELSE [pending.upstream EXCEPT !.reachable = FALSE]
           r == fetch_from_api(pending.date, pending.limit, upstream)
       IN  last' = [op |-> "search_options", ticker |-> pending.ticker,
                    date |-> pending.date, limit |-> pending.limit,
                    force_refresh |-> pending.force_refresh,
                    db_up |-> TRUE, upstream |-> upstream,
                    raised |-> r.raised, data |-> r.data,
                    upstream_calls |-> r.upstream_calls]
    /\ pending' = NoCall
    /\ UNCHANGED <<sqlite, chroma, now, batch>>

\* store_options_data reaches generate_embedding: the payload has
\* contracts, the id and the metadata timestamp have been taken
StoreBegin(data, ticker, date, env, responds) ==
    /\ batch.pc = "idle"
    /\ pending.pc = "none"
    /\ now < MaxClock
    /\ ~data.error
    /\ data.results # <<>>
    /\ pending' = [pc |-> "embeddings_create", data |-> data,
                   ticker |-> ticker, date |-> date, t |-> now, env |-> env,
                   responds |-> responds]
    /\ now' = now + 1
    /\ UNCHANGED <<sqlite, chroma, batch, last>>

\* embeddings.create returns or raises, and store_options_data finishes
EmbeddingsCreateReturns ==
    /\ pending.pc = "embeddings_create"
    /\ wait_returns(pending.responds, openai_timeout)
    /\ LET env == IF pending.responds THEN pending.env
                  ELSE [pending.env EXCEPT !.embed_ok = FALSE]
           r == store_options_data(sqlite, chroma, pending.data,
                                   pending.ticker, pending.date, pending.t, env)
       IN  /\ sqlite' = r.sqlite
           /\ chroma' = r.chroma
           /\ last' = [op |-> "store_options_data", ticker |-> pending.ticker,
                       date |-> pending.date, ret |-> r.ret,
                       snapshot_id |-> r.snapshot_id,
                       embed_calls |-> r.embed_calls,
                       steps |-> r.steps,
                       embed_ok |-> env.embed_ok,
                       chroma_success |-> r.chroma_success,
                       sqlite_success |-> r.sqlite_success]
    /\ pending' = NoCall
    /\ UNCHANGED <<now, batch>>

\* The single-ticker fetch path over one date key
FetchTickers == {"AAPL", "aapl"}
FetchDates == {"2025-11"}

NextFetch ==
    \/ \E data \in FetchedPayloads(FetchDates), ticker \in FetchTickers,
          date \in FetchDates, env \in OkEnvs({0}) :
            StoreOptionsData(data, ticker, date, env)
    \/ \E ticker \in FetchTickers, date \in FetchDates, limit \in Limits,
          force_refresh \in BOOLEAN, db_up \in BOOLEAN,
          upstream \in UpstreamOutcomes :
            SearchOptions(ticker, date, limit, force_refresh, db_up, upstream)

SpecFetch == Init /\ [][NextFetch]_vars

\* Batches over lists of one to MaxTickers tickers
BatchTickers == {"AAPL", "MSFT"}
TickerLists ==
    UNION {[1..n -> BatchTickers] : n \in 1..MaxTickers}

NextBatch ==
    \/ \E data \in FetchedPayloads(FetchDates), ticker \in BatchTickers,
          date \in FetchDates, env \in OkEnvs({0}) :
            StoreOptionsData(data, ticker, date, env)
    \/ \E tickers \in TickerLists, date \in FetchDates, limit \in Limits :
          \E dbs \in [1..Len(tickers) -> BOOLEAN] :
            BatchStart(tickers, date, limit, dbs)
    \/ \E upstream \in UpstreamOutcomes, env \in StoreEnvs({0}) :
            BatchFetch(upstream, env)

SpecBatch == Init /\ [][NextBatch]_vars

\* Anomaly detection over the Snapshots of one ticker, asked for that
\* ticker and for one without Snapshots
AnomalyTickers == {"AAPL"}
DetectTickers == {"AAPL", "MSFT"}
ComparisonDates == {NoDates, DateList(<<"2025-11-07">>)}
Embeddings == {0, 1, 2}
MinSimilarities == {0, 140006}     \* 0.0 (the default) and 0.70003
DetectEnvs ==
    {[sqlite_up |-> TRUE, chroma_up |-> TRUE],
     [sqlite_up |-> FALSE, chroma_up |-> TRUE],
     [sqlite_up |-> TRUE, chroma_up |-> FALSE]}
AnomalyStoreEnvs ==
    OkEnvs(Embeddings)
    \cup {[embed_ok |-> TRUE, embedding |-> 0, chroma_ok |-> FALSE, sqlite_ok |-> TRUE]}

NextAnomaly ==
    \/ \E ticker \in AnomalyTickers, date \in DateKeys, env \in AnomalyStoreEnvs :
            StoreOptionsData(fetch_from_api(date, MaxLimit,
                                [reachable |-> TRUE, status_code |-> STATUS_OK,
                                 results |-> Chain]).data,
                             ticker, date, env)
    \/ \E ticker \in DetectTickers, reference_date \in DateKeys,
          comparison_dates \in ComparisonDates,
          min_similarity \in MinSimilarities, max_results \in Limits,
          env \in DetectEnvs :
            DetectOptionsAnomaly(ticker, reference_date, comparison_dates,
                                 min_similarity, max_results, env)

SpecAnomaly == Init /\ [][NextAnomaly]_vars

\* The three writers of one ticker, with either write allowed to fail
StoreTickers == {"AAPL"}
StoreUpstreams ==
    {[reachable |-> FALSE, status_code |-> 0, results |-> <<>>],
     [reachable |-> TRUE, status_code |-> STATUS_OK, results |-> Chain]}

NextStore ==
    \/ \E data \in FetchedPayloads(FetchDates), ticker \in StoreTickers,
          date \in FetchDates, env \in StoreEnvs({0}) :
            StoreOptionsData(data, ticker, date, env)
    \/ \E ticker \in StoreTickers, date \in FetchDates, limit \in Limits :
          \E dbs \in [1..1 -> BOOLEAN] :
            BatchStart(<<ticker>>, date, limit, dbs)
    \/ \E upstream \in StoreUpstreams, env \in StoreEnvs({0}) :
            BatchFetch(upstream, env)
    \/ \E ticker \in StoreTickers, date \in FetchDates, limit \in Limits,
          force_update \in BOOLEAN, db_up \in BOOLEAN,
          upstream \in StoreUpstreams, env \in StoreEnvs({0}) :
            CollectAndStoreOptions(ticker, date, limit, force_update, db_up,
                                   upstream, env)

SpecStore == Init /\ [][NextStore]_vars

\* Queries of the Snapshot Store over Snapshots of two tickers and two
\* date keys; "" is an omitted filter
QueryTickers == {"AAPL", "MSFT"}
QueryFilters(values) == {""} \cup values

NextQuery ==
    \/ \E ticker \in QueryTickers, date \in DateKeys, env \in OkEnvs({0}) :
            StoreOptionsData(fetch_from_api(date, MaxLimit,
                                [reachable |-> TRUE, status_code |-> STATUS_OK,
                                 results |-> Chain]).data,
                             ticker, date, env)
    \/ \E ticker \in QueryFilters(QueryTickers),
          start_date \in QueryFilters(DateKeys),
          end_date \in QueryFilters(DateKeys),
          limit \in Limits, db_up \in BOOLEAN :
            QuerySqlite(ticker, start_date, end_date, limit, db_up)

SpecQuery == Init /\ [][NextQuery]_vars

\* Calls that wait for the upstream API and for the embedding service,
\* either of which may stay silent (a silent service has no outcome, so
\* one stands for all)
NextBlocking ==
    \/ \E ticker \in StoreTickers, date \in FetchDates, limit \in Limits,
          force_refresh \in BOOLEAN, responds \in BOOLEAN :
          \E upstream \in {u \in UpstreamOutcomes : responds \/ ~u.reachable} :
            SearchBegin(ticker, date, limit, force_refresh, upstream, responds)
    \/ RequestsGetReturns
    \/ \E data \in FetchedPayloads(FetchDates), ticker \in StoreTickers,
          date \in FetchDates, responds \in BOOLEAN :
          \E env \in {e \in StoreEnvs({0}) : responds \/ ~e.embed_ok} :
            StoreBegin(data, ticker, date, env, responds)
    \/ EmbeddingsCreateReturns

SpecBlocking == Init /\ [][NextBlocking]_vars

\* Document texts of payloads a caller may hand to store_options_data:
\* one or two contracts, and a count field that need not be their number
Contracts == {K1, K2, K3, K4}
DescribePayloads ==
    {Payload(results, count, FALSE) :
        results \in UNION {[1..n -> Contracts] : n \in 1..MaxLimit},
        count \in 0..MaxLimit}

NextDescribe ==
    \E options_data \in DescribePayloads, ticker \in BatchTickers,
       date \in DateKeys :
        CreateDocumentText(options_data, ticker, date)

SpecDescribe == Init /\ [][NextDescribe]_vars

\* Semantic search over the embeddings of stored Snapshots
SearchEnvs ==
    OkEnvs(Embeddings)
    \cup {[embed_ok |-> FALSE, embedding |-> 0, chroma_ok |-> TRUE, sqlite_ok |-> TRUE],
          [embed_ok |-> TRUE, embedding |-> 0, chroma_ok |-> FALSE, sqlite_ok |-> TRUE]}

NextSearch ==
    \/ \E ticker \in QueryTickers, date \in FetchDates, env \in OkEnvs(Embeddings) :
            StoreOptionsData(fetch_from_api(date, MaxLimit,
                                [reachable |-> TRUE, status_code |-> STATUS_OK,
                                 results |-> Chain]).data,
                             ticker, date, env)
    \/ \E limit \in Limits, ticker \in QueryFilters(QueryTickers),
          env \in SearchEnvs :
            SearchChromadb(limit, ticker, env)

SpecSearch == Init /\ [][NextSearch]_vars

\* The upstream path of one ticker: Snapshots of the month key, requests
\* for the month key and for an exact-date key
NextUpstream ==
    \/ \E data \in FetchedPayloads(FetchDates), ticker \in StoreTickers,
          date \in FetchDates, env \in OkEnvs({0}) :
            StoreOptionsData(data, ticker, date, env)
    \/ \E ticker \in StoreTickers, date \in DateKeys, limit \in Limits,
          force_refresh \in BOOLEAN, upstream \in UpstreamOutcomes :
            SearchOptions(ticker, date, limit, force_refresh, TRUE, upstream)

SpecUpstream == Init /\ [][NextUpstream]_vars

\* The neighbour filters: every form of the comparison_dates argument,
\* over Snapshots of one ticker with equal embeddings
ComparisonArguments == ComparisonDates \cup {DateList(<<>>)}

NextFilter ==
    \/ \E ticker \in AnomalyTickers, date \in DateKeys, env \in OkEnvs({0}) :
            StoreOptionsData(fetch_from_api(date, MaxLimit,
                                [reachable |-> TRUE, status_code |-> STATUS_OK,
                                 results |-> Chain]).data,
                             ticker, date, env)
    \/ \E ticker \in AnomalyTickers, reference_date \in DateKeys,
          comparison_dates \in ComparisonArguments, max_results \in Limits :
            DetectOptionsAnomaly(ticker, reference_date, comparison_dates, 0,
                                 max_results,
                                 [sqlite_up |-> TRUE, chroma_up |-> TRUE])

SpecFilter == Init /\ [][NextFilter]_vars

\* A knowledge base that holds more Snapshots of one ticker than the
\* neighbour query asks for: N_RESULTS Snapshots of 2025-11-07 stored one
\* per second, then one of 2025-11.  The last has embedding 0, one of the
\* others (the one at position `far`) embedding 2, the rest embedding 1.
StoredSnapshots == N_RESULTS + 1
FarPositions == {1, N_RESULTS}

\* what the n-th store_options_data call of that history wrote: the ids
\* differ (one store per second), so no call touches what another wrote
StoredBy(n, far) ==
    LET date == IF n = StoredSnapshots THEN "2025-11" ELSE "2025-11-07"
        embedding == IF n = StoredSnapshots THEN 0
                     ELSE IF n = far THEN 2 ELSE 1
    IN  store_options_data(
            <<>>, <<>>,
            fetch_from_api(date, MaxLimit,
                [reachable |-> TRUE, status_code |-> STATUS_OK,
                 results |-> Chain]).data,
            "AAPL", date, (n - 1) * TicksPerSecond,
            [embed_ok |-> TRUE, embedding |-> embedding,
             chroma_ok |-> TRUE, sqlite_ok |-> TRUE])

\* the two databases after the StoredSnapshots calls
Populate(far) ==
    LET writes == [n \in 1..StoredSnapshots |-> StoredBy(n, far)]
        ids == {writes[n].snapshot_id : n \in 1..StoredSnapshots}
        call == [id \in ids |->
                    CHOOSE n \in 1..StoredSnapshots : writes[n].snapshot_id = id]
    IN  [sqlite |-> [id \in ids |-> writes[call[id]].sqlite[id]],
         chroma |-> [id \in ids |-> writes[call[id]].chroma[id]]]

InitLarge ==
    /\ \E far \in FarPositions :
        /\ sqlite = Populate(far).sqlite
        /\ chroma = Populate(far).chroma
    /\ now = StoredSnapshots * TicksPerSecond
    /\ batch = Idle
    /\ pending = NoCall
    /\ last = [op |-> "none"]

NextLarge ==
    \E ticker \in DetectTickers, reference_date \in DateKeys,
       comparison_dates \in ComparisonDates,
       min_similarity \in MinSimilarities, max_results \in Limits,
       env \in DetectEnvs :
        DetectOptionsAnomaly(ticker, reference_date, comparison_dates,
                             min_similarity, max_results, env)

SpecLarge == InitLarge /\ [][NextLarge]_vars

\* Batch collections over lists of one to MaxTickers tickers; for each
\* ticker the API is unreachable, answers with the chain or answers with
\* no contract of the month, and the save works or the SQLite write fails
CollectUpstreams ==
    StoreUpstreams
    \cup {[reachable |-> TRUE, status_code |-> STATUS_OK, results |-> <<K4>>]}
CollectEnvs ==
    OkEnvs({0})
    \cup {[embed_ok |-> TRUE, embedding |-> 0, chroma_ok |-> TRUE, sqlite_ok |-> FALSE]}

NextCollect ==
    \E tickers \in TickerLists, date \in FetchDates, limit \in Limits :
        \E upstreams \in [1..Len(tickers) -> CollectUpstreams],
           envs \in [1..Len(tickers) -> CollectEnvs] :
            BatchCollectOptions(tickers, date, limit, upstreams, envs)

SpecCollect == Init /\ [][NextCollect]_vars

\* Batches over Snapshots a caller stored with store_options_data: the
\* tool takes any JSON text with a "results" list, so the count field need
\* not be the number of results (a payload without the field reads as 0)
CallerPayloads ==
    {Payload(results, count, FALSE) :
        results \in {<<K1>>, <<K1, K2>>}, count \in 0..MaxLimit}

\* the API is unreachable, or answers with the chain or with one contract
\* of the month
CallerUpstreams ==
    StoreUpstreams
    \cup {[reachable |-> TRUE, status_code |-> STATUS_OK, results |-> <<K1, K4>>]}

NextCaller ==
    \/ \E data \in CallerPayloads, ticker \in StoreTickers,
          date \in FetchDates, env \in OkEnvs({0}) :
            StoreOptionsData(data, ticker, date, env)
    \/ \E ticker \in FetchTickers, date \in FetchDates, limit \in Limits :
            BatchStart(<<ticker>>, date, limit, <<TRUE>>)
    \/ \E upstream \in CallerUpstreams, env \in OkEnvs({0}) :
            BatchFetch(upstream, env)
    \/ BatchAgain

SpecCaller == Init /\ [][NextCaller]_vars

----------------------------------------------------------------------------
(* Properties of the single-ticker fetch *)

\* the stored Snapshots search_options looks up for (ticker, date)
SnapshotsFor(ticker, date) ==
    {sqlite[i] : i \in {j \in DOMAIN sqlite :
                    sqlite[j].ticker = upper(ticker) /\ sqlite[j].date = date}}

MostRecent(rows) == CHOOSE r \in rows : \A y \in rows : y.timestamp <= r.timestamp

CacheLookup ==
    /\ last.op = "search_options"
    /\ ~last.force_refresh
    /\ last.db_up

ServedPrefixOf(S) ==
    /\ last.upstream_calls = 0
    /\ ~last.raised
    /\ ~last.data.error
    /\ Len(last.data.results) = last.limit
    /\ last.data.results = SubSeq(S.data.results, 1, last.limit)

C3_WriteThrough ==
    [][(/\ last'.op = "search_options"
        /\ last'.upstream_calls = 1
        /\ ~last'.raised
        /\ ~last'.data.error
        /\ last'.data.count >= 1)
       => \E id \in DOMAIN sqlite' \ DOMAIN sqlite :
            /\ id \in DOMAIN chroma'
            /\ sqlite'[id].ticker = upper(last'.ticker)
            /\ sqlite'[id].date = last'.date
            /\ sqlite'[id].total_contracts <= last'.limit]_vars

\* C8: when the upstream API is unreachable or answers a non-success
\* status, search_options makes exactly one upstream call, returns a
\* structured error (does not raise) and writes to neither store.
C8_UpstreamFailureStructured ==
    [][(/\ last'.op = "search_options"
        /\ last'.upstream_calls > 0
        /\ (~last'.upstream.reachable \/ last'.upstream.status_code # STATUS_OK))
       => /\ last'.upstream_calls = 1
          /\ ~last'.raised
          /\ last'.data.error
          /\ sqlite' = sqlite
          /\ chroma' = chroma]_vars

----------------------------------------------------------------------------
(* Properties of batch_search_options *)

BatchReturned == last.op = "batch_search_options"

FailedFetch(o) == o.kind \in {"raised", "error", "empty"}

\* C4: when the upstream fetch of a ticker fails (error status, zero
\* contracts or a raised exception) batch_search_options does not raise,
\* lists that ticker in `failed`, and still returns the data of every other
\* ticker that hit the cache or was fetched successfully.
C4_BatchIsolation ==
    BatchReturned =>
        /\ ~last.raised
        /\ \A i \in 1..Len(last.outcomes) :
            LET o == last.outcomes[i]
            IN  /\ FailedFetch(o) => o.ticker \in Range(last.failed)
                /\ o.kind = "fetched" =>
                    /\ o.ticker \in DOMAIN last.data
                    /\ \E j \in 1..Len(last.outcomes) :
                        /\ last.outcomes[j].ticker = o.ticker
                        /\ last.outcomes[j].kind = "fetched"
                        /\ last.data[o.ticker].results =
                                last.outcomes[j].data.results
                    /\ o.ticker \notin Range(last.failed) =>
                            o.ticker \in Range(last.from_api)
        /\ \A t \in Range(last.cache_hits) :
            /\ t \in DOMAIN last.data
            /\ t \notin Range(last.api_fetches) =>
                    /\ last.data[t].from_cache
                    /\ Len(last.data[t].results) = last.limit

\* a raised exception for the first ticker, a cache hit and a successful
\* fetch for others in the same batch
C4_Witness ==
    /\ BatchReturned
    /\ Len(last.outcomes) = 2
    /\ last.outcomes[1].kind = "raised"
    /\ last.outcomes[2].kind = "fetched"
    /\ last.outcomes[1].ticker # last.outcomes[2].ticker
    /\ last.failed = <<last.outcomes[1].ticker>>
    /\ last.from_api = <<last.outcomes[2].ticker>>

\* C9: within one batch_search_options run, between any two consecutive
\* upstream calls the fixed delay elapses, whatever the earlier call's
\* outcome was.
C9_DelayBetweenCalls ==
    BatchReturned =>
        \A i \in 1..(Len(last.events) - 1) :
            last.events[i] = "upstream" => last.events[i + 1] = "sleep"

----------------------------------------------------------------------------
(* Properties of the Snapshot write *)

\* C6 (as stated).  In every reachable state, after any sequence of
\* store_options_data, batch_search_options and collect_and_store_options
\* calls with either write allowed to fail, every id in the Vector Index is
\* the id of a Snapshot in the Snapshot Store (ids are the primary key of
\* the Snapshot Store, so such a Snapshot is the only one).  The code adds
\* the Vector Index record first and does not remove it when the Snapshot
\* Store write fails.
C6_IndexToStore ==
    \A id \in DOMAIN chroma : id \in DOMAIN sqlite

\* C7 (as stated).  When embedding generation fails during a Snapshot
\* write, the Snapshot Store write has succeeded, no Vector Index record is
\* written, and the caller is told something other than the failure of the
\* whole write.  The code generates the embedding before either write.
C7_EmbeddingFailurePartial ==
    (/\ last.op = "store_options_data"
     /\ last.embed_calls = 1
     /\ ~last.embed_ok)
    => /\ last.sqlite_success
       /\ ~last.chroma_success
       /\ last.ret \notin {"exception", "store_failed"}

----------------------------------------------------------------------------
(* Properties of anomaly detection *)

DetectReturned == last.op = "detect_options_anomaly"

IsAscending(anomalies) ==
    \A i \in 1..Len(anomalies) - 1 :
        anomalies[i].similarity_score <= anomalies[i + 1].similarity_score

ReferenceOf(ticker, reference_date) ==
    LET rows == SnapshotsFor(ticker, reference_date)
    IN  {r \in rows : \A y \in rows : y.timestamp <= r.timestamp}

\* C10.  detect_options_anomaly never raises; when the Snapshot Store has
\* no Snapshot for (ticker, reference date), or the most recent one has no
\* record in the Vector Index, it returns one error result and no anomaly
\* results.
C10_MissingReferenceStructured ==
    DetectReturned
    => /\ ~last.raised
       /\ (\/ ReferenceOf(last.ticker, last.reference_date) = {}
           \/ \E ref \in ReferenceOf(last.ticker, last.reference_date) :
                 ref.id \notin DOMAIN chroma)
          => (/\ last.result.is_error
              /\ last.result.anomalies = <<>>)

\* detection ran for a ticker without a Snapshot while another ticker has one
C10_Witness ==
    /\ DetectReturned
    /\ sqlite # <<>>
    /\ ReferenceOf(last.ticker, last.reference_date) = {}
    /\ last.result.is_error
    /\ last.result.error = "no_reference_data"

\* the stored Snapshot an anomaly entry was built from: the row captured at
\* the entry's timestamp
ComparisonOf(a) == {sqlite[i] : i \in {j \in DOMAIN sqlite :
                                        sqlite[j].timestamp = a.timestamp}}

\* C11.  In every result of detect_options_anomaly, total_contracts_change,
\* calls_change and puts_change are the comparison Snapshot's stored count
\* minus the count of the reference, the most recently captured Snapshot of
\* (ticker, reference date).
C11_SignedDeltas ==
    (DetectReturned /\ ~last.result.is_error)
    => \A i \in 1..Len(last.result.anomalies) :
        LET a == last.result.anomalies[i]
        IN  /\ ComparisonOf(a) # {}
            /\ \A cmp \in ComparisonOf(a) :
               \A ref \in ReferenceOf(last.ticker, last.reference_date) :
                /\ a.changes_from_reference.total_contracts_change
                        = cmp.total_contracts - ref.total_contracts
                /\ a.changes_from_reference.calls_change
                        = cmp.calls_count - ref.calls_count
                /\ a.changes_from_reference.puts_change
                        = cmp.puts_count - ref.puts_count

\* a result whose comparison Snapshot has fewer puts than the reference,
\* and whose reference is the newer of two Snapshots of its key
C11_Witness ==
    /\ DetectReturned
    /\ ~last.result.is_error
    /\ Cardinality(SnapshotsFor(last.ticker, last.reference_date)) = 2
    /\ \E i \in 1..Len(last.result.anomalies) :
        last.result.anomalies[i].changes_from_reference.puts_change < 0

----------------------------------------------------------------------------
(* Properties of the upstream path and of the Snapshot Store query *)

\* the date key selects the contract: same date, or same month
Matches(c, date) ==
    IF Len(date) = 7
    THEN Len(c.expiration_date) >= 7 /\ SubSeq(c.expiration_date, 1, 7) = date
    ELSE c.expiration_date = date

\* positions of the upstream response that the date key selects
MatchingPositions(body, date) == {i \in 1..Len(body) : Matches(body[i], date)}

\* the k-th of them, in response order
KthPosition(P, k) == CHOOSE i \in P : Cardinality({j \in P : j <= i}) = k

SucceededUpstream ==
    /\ last.op = "search_options"
    /\ last.upstream_calls = 1
    /\ last.upstream.reachable
    /\ last.upstream.status_code = 200

\* C12.  On the upstream path with a success status search_options returns
\* the first min(limit, n) of the n response contracts the date key selects
\* (same date for an exact-date key, same month for a month key), in
\* response order, with count the number returned; n = 0 gives a result
\* without error and count 0.
C12_UpstreamFilterTruncation ==
    SucceededUpstream
    => LET P == MatchingPositions(last.upstream.results, last.date)
           n == Cardinality(P)
           returned == last.data.results
       IN  /\ ~last.raised
           /\ ~last.data.error
           /\ Len(returned) = (IF last.limit < n THEN last.limit ELSE n)
           /\ last.data.count = Len(returned)
           /\ \A k \in 1..Len(returned) :
                returned[k] = last.upstream.results[KthPosition(P, k)]

\* a month request answered with a chain of which three contracts match,
\* one does not, and the limit cuts the matching ones
C12_Witness ==
    /\ SucceededUpstream
    /\ Len(last.date) = 7
    /\ Cardinality(MatchingPositions(last.upstream.results, last.date)) = 3
    /\ Len(last.upstream.results) = 4
    /\ Len(last.data.results) = 2
    /\ last.limit = 2

\* the stored Snapshots that pass every supplied filter of the last query
Selected ==
    {sqlite[i] : i \in {j \in DOMAIN sqlite :
        /\ last.ticker # "" => sqlite[j].ticker = last.ticker
        /\ last.start_date # "" => StrLeq(last.start_date, sqlite[j].date)
        /\ last.end_date # "" => StrLeq(sqlite[j].date, last.end_date)}}

\* C13.  query_sqlite returns exactly the stored Snapshots that satisfy
\* every supplied filter (ticker equal, date key between start_date and
\* end_date as strings; an omitted filter does not restrict), most recently
\* captured first, cut to the `limit` most recent ones.
C13_SnapshotStoreQuery ==
    (last.op = "query_sqlite" /\ last.db_up)
    => LET result == last.result
           n == Cardinality(Selected)
       IN  /\ Len(result) = (IF last.limit < n THEN last.limit ELSE n)
           /\ \A k \in 1..Len(result) : result[k] \in Selected
           /\ \A k \in 1..Len(result) - 1 :
                result[k].timestamp > result[k + 1].timestamp
           /\ \A r \in Selected :
                (\A k \in 1..Len(result) : result[k] # r)
                => \A k \in 1..Len(result) : r.timestamp < result[k].timestamp

\* a query with a ticker and a start date over three Snapshots, of which
\* two pass the filters and the limit keeps one
C13_Witness ==
    /\ last.op = "query_sqlite"
    /\ last.db_up
    /\ last.ticker # ""
    /\ last.start_date # ""
    /\ Cardinality(DOMAIN sqlite) = 3
    /\ Cardinality(Selected) = 2
    /\ last.limit = 1
    /\ Len(last.result) = 1

\* C14 (as stated).  For every result of detect_options_anomaly the level
\* is High exactly when its similarity score is below 0.7, Medium exactly
\* when the score is at least 0.7 and below 0.85, and Low otherwise.
C14_Classification ==
    (DetectReturned /\ ~last.result.is_error)
    => \A i \in 1..Len(last.result.anomalies) :
        LET a == last.result.anomalies[i]
            s == a.similarity_score
        IN  /\ a.anomaly_level = "High" <=> s < HIGH_BELOW
            /\ a.anomaly_level = "Medium" <=> (s >= HIGH_BELOW /\ s < MEDIUM_BELOW)
            /\ a.anomaly_level = "Low" <=> s >= MEDIUM_BELOW

\* C14 (amended).  The level is taken from the similarity before it is
\* rounded to four decimals: a result whose score is below 0.7 is High,
\* one strictly between 0.7 and 0.85 is Medium, one above 0.85 is Low; a
\* result showing exactly 0.7 is High or Medium and one showing exactly
\* 0.85 is Medium or Low.
C14_ClassificationBeforeRounding ==
    (DetectReturned /\ ~last.result.is_error)
    => \A i \in 1..Len(last.result.anomalies) :
        LET a == last.result.anomalies[i]
            s == a.similarity_score
        IN  /\ a.anomaly_level \in {"High", "Medium", "Low"}
            /\ s < HIGH_BELOW => a.anomaly_level = "High"
            /\ (s > HIGH_BELOW /\ s < MEDIUM_BELOW) => a.anomaly_level = "Medium"
            /\ s > MEDIUM_BELOW => a.anomaly_level = "Low"
            /\ s = HIGH_BELOW => a.anomaly_level \in {"High", "Medium"}
            /\ s = MEDIUM_BELOW => a.anomaly_level \in {"Medium", "Low"}

\* a High result below 0.7 and a Medium result have been returned together
C14_Witness ==
    /\ DetectReturned
    /\ ~last.result.is_error
    /\ Len(last.result.anomalies) = 2
    /\ last.result.anomalies[1].anomaly_level = "High"
    /\ last.result.anomalies[1].similarity_score < HIGH_BELOW
    /\ last.result.anomalies[2].anomaly_level = "Medium"

----------------------------------------------------------------------------
(* Properties of calls that wait for a service *)

\* C15 (as stated).  No call blocks indefinitely: a search_options or
\* store_options_data call that waits for the upstream API or for the
\* embedding service can always take the step that makes it return, with a
\* result or an error, even when the service never responds.
C15_NoIndefiniteBlocking ==
    pending.pc # "none" => ENABLED (RequestsGetReturns \/ EmbeddingsCreateReturns)

----------------------------------------------------------------------------
(* Properties of collect_and_store_options *)

\* C16 (as stated).  collect_and_store_options with force_update = True
\* always issues an upstream call, also when a Snapshot of (ticker, date)
\* is already stored, so that what it stores comes from that response.
C16_ForcedUpdateRefetches ==
    (last.op = "collect_and_store_options" /\ last.force_update)
    => last.upstream_calls = 1

----------------------------------------------------------------------------
(* Properties of the document text *)

\* the summary statistics extract_metadata computes for a payload
SummaryOf(options_data) ==
    LET md == extract_metadata(options_data, "", "", 0)
    IN  <<md.total_contracts, md.calls_count, md.puts_count,
          md.strike_min, md.strike_max>>

\* C17 (as stated).  For a fixed ticker and date, two payloads with the
\* same total, calls and puts counts and the same lowest and highest strike,
\* as extract_metadata computes them, have the same document text, whatever
\* their contracts and other fields are.
C17_DescribeDependsOnSummary ==
    last.op = "create_document_text"
    => \A other \in DescribePayloads :
        SummaryOf(other) = SummaryOf(last.options_data)
        => create_document_text(other, last.ticker, last.date) = last.text

----------------------------------------------------------------------------
(* Properties of the similarity values *)

\* C18 (as stated).  Every similarity derived from a cosine distance d of
\* the Vector Index is 1 - d/2 and lies between 0 and 1, with d = 0 giving
\* 1; here for the results of search_chromadb.
C18_SimilarityRange ==
    last.op = "search_chromadb"
    => \A i \in 1..Len(last.result) :
        LET r == last.result[i]
        IN  /\ r.similarity = SimilarityOne - r.distance
            /\ r.similarity >= 0
            /\ r.similarity <= SimilarityOne

----------------------------------------------------------------------------
(* Properties of the stored Snapshots *)

\* number of contracts of a payload whose type is the given one
TypedCount(results, contract_type) ==
    Cardinality({i \in 1..Len(results) :
                    results[i].contract_type \in {contract_type}})

\* C19.  Every Snapshot of the Snapshot Store has callsCount + putsCount
\* <= totalContracts: totalContracts counts every contract of the payload,
\* the typed counts only the calls and only the puts, so a contract of
\* another or of no type is in neither.
C19_SnapshotCounts ==
    \A id \in DOMAIN sqlite :
        LET row == sqlite[id]
        IN  /\ row.calls_count + row.puts_count <= row.total_contracts
            /\ row.total_contracts = Len(row.data.results)
            /\ row.calls_count = TypedCount(row.data.results, "call")
            /\ row.puts_count = TypedCount(row.data.results, "put")

\* a Snapshot with a contract of no type is stored
C19_Witness ==
    \E id \in DOMAIN sqlite :
        /\ sqlite[id].calls_count + sqlite[id].puts_count < sqlite[id].total_contracts
        /\ sqlite[id].calls_count > 0

\* C20 (as stated).  Every successful store_options_data call assigns an id
\* that no stored Snapshot has, so no step replaces or changes a Snapshot
\* row or an embedding record that is already stored, for any timing of
\* two stores of the same (ticker, date).
C20_IdsUniqueSnapshotsImmutable ==
    [][(last'.op = "store_options_data" /\ last'.ret = "stored")
       => /\ last'.snapshot_id \notin DOMAIN sqlite
          /\ \A id \in DOMAIN sqlite :
                id \in DOMAIN sqlite' /\ sqlite'[id] = sqlite[id]
          /\ \A id \in DOMAIN chroma :
                id \in DOMAIN chroma' /\ chroma'[id] = chroma[id]]_vars

----------------------------------------------------------------------------
(* Properties of the write order *)

\* position of the first occurrence of a step, 0 when it was not made
FirstStep(steps, name) ==
    IF name \in Range(steps)
    THEN MinOf({i \in 1..Len(steps) : steps[i] = name}) ELSE 0

\* C21 (as stated).  When store_options_data persists a Snapshot, the
\* Snapshot Store write comes first, then the call of the embedding
\* service, then the Vector Index write: neither the embedding call nor
\* the Vector Index write is made before the Snapshot Store write of the
\* same Snapshot.
C21_WriteOrder ==
    last.op = "store_options_data"
    => \A i \in 1..Len(last.steps) :
        last.steps[i] \in {"generate_embedding", "store_to_chromadb"}
        => /\ FirstStep(last.steps, "store_to_sqlite") > 0
           /\ FirstStep(last.steps, "store_to_sqlite") < i

----------------------------------------------------------------------------
(* Properties of the pairing of Snapshots and embedding records *)

\* C22 (as stated).  In every reachable state each Snapshot id of the
\* Snapshot Store has an embedding record of the same id in the Vector
\* Index (ids are the key of the index, so it is the only one), and the
\* ticker, date and total, calls and puts counts in that record's metadata
\* are those of the Snapshot row.
C22_SnapshotHasEmbedding ==
    \A id \in DOMAIN sqlite :
        /\ id \in DOMAIN chroma
        /\ LET row == sqlite[id]
               md == chroma[id].metadata
           IN  /\ md.ticker = row.ticker
               /\ md.date = row.date
               /\ md.total_contracts = row.total_contracts
               /\ md.calls_count = row.calls_count
               /\ md.puts_count = row.puts_count

----------------------------------------------------------------------------
(* Properties of the detector's effects *)

\* C23.  detect_options_anomaly is read-only: on every path, whether it
\* returns anomalies or an error, it calls neither the upstream API nor
\* the embedding service and leaves the Snapshot Store and the Vector
\* Index as they were.
C23_DetectorReadOnly ==
    [][last'.op = "detect_options_anomaly"
       => /\ last'.result.upstream_calls = 0
          /\ last'.result.embed_calls = 0
          /\ sqlite' = sqlite
          /\ chroma' = chroma]_vars

\* the detector returned anomalies of a reference whose vector it read
\* from a Vector Index of two or more records
C23_Witness ==
    /\ DetectReturned
    /\ ~last.result.is_error
    /\ last.result.anomalies # <<>>
    /\ last.result.embed_calls = 0
    /\ Cardinality(DOMAIN chroma) >= 2
    /\ Cardinality(DOMAIN sqlite) >= 2

----------------------------------------------------------------------------
(* Properties of the two cache decisions *)

\* the batch whose STEP 1 was just made over the present Snapshot Store:
\* one that waits for its first fetch or one that returned without a fetch
DecidedBatches ==
    (IF batch.pc = "fetching" /\ batch.results.outcomes = <<>>
     THEN {batch.results} ELSE {})
    \cup (IF last.op = "batch_search_options" /\ last.api_fetches = <<>>
          THEN {last} ELSE {})

\* search_options(ticker, date, limit, force_refresh=False) over the
\* present Snapshot Store; no upstream call is a request served from cache
SingleLookup(ticker, date, limit) ==
    search_options(sqlite, ticker, date, limit, FALSE, TRUE,
                   [reachable |-> TRUE, status_code |-> STATUS_OK,
                    results |-> Chain])

\* C24 (as stated).  For the same Snapshot Store, ticker, date and limit,
\* batch_search_options lists the ticker as a cache hit exactly when
\* search_options without force_refresh serves it from cache, and the
\* data of a hit has at most `limit` contracts, the prefix search_options
\* returns.
C24_BatchAgreesWithSingle ==
    \A b \in DecidedBatches :
        \A i \in 1..Len(b.tickers) :
            LET ticker == upper(b.tickers[i])
                single == SingleLookup(b.tickers[i], b.date, b.limit)
            IN  /\ ticker \in Range(b.cache_hits) <=> single.upstream_calls = 0
                /\ ticker \in Range(b.cache_hits) =>
                    /\ Len(b.data[ticker].results) <= b.limit
                    /\ b.data[ticker].results = single.data.results

----------------------------------------------------------------------------
(* Properties of the batch's auto-save *)

\* C25 (as stated).  When batch_search_options returns, every ticker its
\* summary lists as fetched from the API, which it lists as auto-saved, has
\* a Snapshot of (ticker, date) in the Snapshot Store and an embedding
\* record of (ticker, date) in the Vector Index, and no fetched ticker
\* whose save failed is listed so.
C25_BatchSavedMeansStored ==
    BatchReturned =>
        /\ \A t \in Range(last.from_api) :
            /\ \E id \in DOMAIN sqlite :
                    sqlite[id].ticker = t /\ sqlite[id].date = last.date
            /\ \E id \in DOMAIN chroma :
                    /\ chroma[id].metadata.ticker = t
                    /\ chroma[id].metadata.date = last.date
        /\ \A i \in 1..Len(last.outcomes) :
            (last.outcomes[i].kind = "fetched"
             /\ last.outcomes[i].saved # "stored")
            => last.outcomes[i].ticker \notin Range(last.from_api)

----------------------------------------------------------------------------
(* Properties of the neighbour filters *)

\* the Snapshot rows an anomaly entry can stand for: same date, timestamp
\* and counts
RowsOf(a) ==
    {id \in DOMAIN sqlite :
        /\ sqlite[id].date = a.date
        /\ sqlite[id].timestamp = a.timestamp
        /\ sqlite[id].total_contracts = a.metrics.total_contracts}

\* C26 (as stated).  No result of detect_options_anomaly is the reference
\* Snapshot, every result is a Snapshot of the requested ticker, and when
\* comparison_dates is supplied, as an empty list too, the date of every
\* result is one of its members.
C26_NeighbourFilters ==
    (DetectReturned /\ ~last.result.is_error)
    => \A i \in 1..Len(last.result.anomalies) :
        LET a == last.result.anomalies[i]
        IN  /\ \A r \in ReferenceOf(last.ticker, last.reference_date) :
                    r.id \notin RowsOf(a)
            /\ \A id \in RowsOf(a) : sqlite[id].ticker = upper(last.ticker)
            /\ last.comparison_dates.supplied
               => a.date \in Range(last.comparison_dates.dates)

----------------------------------------------------------------------------
(* Properties of the choice of anomalies *)

\* the stored Snapshots of the ticker that pass the filters of a
\* detect_options_anomaly call with reference ref, as ids of the Vector
\* Index
Candidates(ref) ==
    {id \in DOMAIN chroma :
        /\ chroma[id].metadata.ticker = upper(last.ticker)
        /\ id # ref.id
        /\ id \in DOMAIN sqlite
        /\ truthy(last.comparison_dates)
           => chroma[id].metadata.date \in Range(last.comparison_dates.dates)
        /\ similarity_of(cosine_distance(chroma[ref.id].embedding,
                                         chroma[id].embedding))
                >= last.min_similarity}

\* the similarity score a result for the candidate carries
ScoreOf(ref, id) ==
    round4_similarity(similarity_of(
        cosine_distance(chroma[ref.id].embedding, chroma[id].embedding)))

\* C27 (as stated).  For any number of stored Snapshots of the ticker,
\* detect_options_anomaly returns the max_results lowest-similarity
\* Snapshots among all stored Snapshots of the ticker that pass the
\* filters: as many results as max_results and the candidates allow, and
\* fewer than i candidates score below the i-th result.
C27_GloballyMostDissimilar ==
    (DetectReturned /\ ~last.result.is_error)
    => \A ref \in ReferenceOf(last.ticker, last.reference_date) :
        LET anomalies == last.result.anomalies
        IN  /\ Len(anomalies)
                 = Min(last.max_results, Cardinality(Candidates(ref)))
            /\ \A i \in 1..Len(anomalies) :
                 Cardinality({id \in Candidates(ref) :
                    ScoreOf(ref, id) < anomalies[i].similarity_score}) < i

----------------------------------------------------------------------------
(* Properties of the ticker key *)

\* the Snapshots stored for (ticker, date) under the ticker text as given
\* or in upper case
StoredUnder(ticker, date) ==
    {sqlite[i] : i \in {j \in DOMAIN sqlite :
                        /\ sqlite[j].ticker \in {ticker, upper(ticker)}
                        /\ sqlite[j].date = date}}

\* C28 (as stated), for the lookup of search_options.  For a ticker text
\* in any letter case: when store_options_data has stored Snapshots of
\* (ticker, date) under that text, each with at least `limit` contracts,
\* a later search_options(ticker, date, limit, force_refresh = False) over
\* a reachable database finds one and serves the request from cache.
C28_TickerKeyConsistency ==
    (/\ last.op = "search_options"
     /\ ~last.force_refresh
     /\ last.db_up
     /\ \E r \in StoredUnder(last.ticker, last.date) : r.ticker = last.ticker
     /\ \A r \in StoredUnder(last.ticker, last.date) :
            r.total_contracts >= last.limit /\ r.data.count >= last.limit)
    => /\ last.upstream_calls = 0
       /\ ~last.raised
       /\ last.data.from_cache

----------------------------------------------------------------------------
(* Properties of batch_collect_options *)

\* C29 (as stated).  batch_collect_options counts a ticker as Successful
\* only if the Snapshot Store holds a Snapshot of (ticker, date) when it
\* finishes; a ticker for which upstream returned no contract or whose
\* store failed is counted as Failed; the two counts are those of the
\* listed statuses.
C29_CollectSuccessMeansStored ==
    last.op = "batch_collect_options"
    => /\ \A i \in 1..Len(last.results) :
            LET r == last.results[i]
            IN  /\ r.status = "Success"
                   => \E id \in DOMAIN sqlite :
                        /\ sqlite[id].ticker = r.ticker
                        /\ sqlite[id].date = last.date
                /\ (r.ret = "no_data"
                    \/ (r.ret = "complete" /\ r.storage # "stored"))
                   => r.status = "Failed"
       /\ last.successful
            = Cardinality({i \in 1..Len(last.results) :
                            last.results[i].status = "Success"})
       /\ last.successful + last.failed = Len(last.results)

----------------------------------------------------------------------------
(* Properties of a repeated batch *)

\* the results of STEP 1 of a batch_search_options call made in this step
\* with the arguments of the call that just returned
RepeatedStep1 ==
    {b \in (IF batch'.pc = "fetching" THEN {batch'.results}
            ELSE IF last'.op = "batch_search_options" THEN {last'}
            ELSE {}) :
        /\ batch.pc = "idle"
        /\ last.op = "batch_search_options"
        /\ b.outcomes = <<>>
        /\ b.tickers = last.tickers
        /\ b.date = last.date
        /\ b.limit = last.limit}

\* C30 (as stated).  When batch_search_options has returned, having
\* fetched a ticker from the API and saved it, and the next step is a call
\* of batch_search_options with the same tickers, date and limit over a
\* reachable database, STEP 1 of that call lists the ticker as a cache hit
\* and not as a ticker to fetch, whatever number of matching contracts
\* upstream had.
C30_RepeatBatchFromCache ==
    [][\A b \in RepeatedStep1 :
        \A i \in 1..Len(last.outcomes) :
            (last.outcomes[i].kind = "fetched"
             /\ last.outcomes[i].saved = "stored")
            => /\ last.outcomes[i].ticker \in Range(b.cache_hits)
               /\ last.outcomes[i].ticker \notin Range(b.api_fetches)]_vars

\* C30 (amended).  The same for a ticker of which upstream had at least
\* `limit` matching contracts, so that the fetch returned and the save
\* stored `limit` contracts: the repeated call lists it as a cache hit and
\* not as a ticker to fetch.  A ticker with fewer matching contracts is
\* stored with fewer than `limit` contracts and is fetched again.
C30_RepeatBatchFromCacheSufficient ==
    [][\A b \in RepeatedStep1 :
        \A i \in 1..Len(last.outcomes) :
            (/\ last.outcomes[i].kind = "fetched"
             /\ last.outcomes[i].saved = "stored"
             /\ last.outcomes[i].data.count >= last.limit)
            => /\ last.outcomes[i].ticker \in Range(b.cache_hits)
               /\ last.outcomes[i].ticker \notin Range(b.api_fetches)]_vars

\* a repeated call returned at once with the ticker the earlier call had
\* fetched and saved as a cache hit
C30_Witness ==
    /\ BatchReturned
    /\ last.outcomes = <<>>
    /\ \E i \in 1..Len(last.earlier_outcomes) :
        /\ last.earlier_outcomes[i].kind = "fetched"
        /\ last.earlier_outcomes[i].saved = "stored"
        /\ last.earlier_outcomes[i].data.count >= last.limit
        /\ last.earlier_outcomes[i].ticker \in Range(last.cache_hits)

====
